---- MODULE Spec2Model ----
(***************************************************************************)
(* Model of src/src/lib.rs: EventEmitter<E, P>, a registry of listeners    *)
(* keyed by event, with on (register), off (deregister) and emit           *)
(* (dispatch).                                                             *)
(*                                                                         *)
(* Id = u64 is kept as a fixed-width unsigned counter, scaled down so that *)
(* its largest value IdMax is reachable.  `self.next_id += 1` at IdMax     *)
(* panics when the build has overflow checks (debug profile) and wraps to  *)
(* 0 when it has not (release profile); the build is fixed at Init.        *)
(*                                                                         *)
(* A closure is user code: "send" forwards the value it receives to an     *)
(* observation point (as the channel senders of the tests do), "fail"      *)
(* panics when it is called.                                               *)
(***************************************************************************)
EXTENDS Integers, Sequences, FiniteSets, TLC

\* ---------------------------------------------------------------- bounds
IdMax == 2            \* largest value of the scaled-down Id type
MaxListeners == 2     \* listeners held by the map at any one time

Ids == 0..IdMax
Events == {"event1", "event2"}
Closures == {"send", "fail"}
Payloads == {1, 3}

NoId == -1
NoEvent == "-"
NoPayload == 0

VARIABLES
    next_id,          \* EventEmitter.next_id
    map,              \* EventEmitter.map: event -> sequence of listeners
    overflow_checks,  \* TRUE: the build panics on integer overflow
    last,             \* the last call: operation, arguments, outcome
    issued,           \* history: ids returned by on
    removed,          \* history: ids for which off returned Ok
    seen              \* history: events on was called with

vars == <<next_id, map, overflow_checks, last, issued, removed, seen>>

\* ----------------------------------------------------------------- types
\* struct Listener<P> { id, closure }
Listener(id, f) == [id |-> id, closure |-> f]

\* the empty HashMap
EmptyMap == [e \in {} |-> <<>>]

\* P: Clone; the payloads of the tests are i32 and &i32, cloned bit for bit
Clone(payload) == payload

RECURSIVE SumLen(_, _)
SumLen(m, keys) ==
    IF keys = {} THEN 0
    ELSE LET k == CHOOSE x \in keys : TRUE
         IN Len(m[k]) + SumLen(m, keys \ {k})

\* number of listeners the map holds
Size(m) == SumLen(m, DOMAIN m)

\* ------------------------------------------------------------------- new
new == [next_id |-> 0, map |-> EmptyMap]

\* -------------------------------------------------------------------- on
\* push_listener that inserts the listener at the front of the sequence
push_front(m, event, l) ==
    [e \in (DOMAIN m) \cup {event} |->
        IF e = event
        THEN <<l>> \o (IF event \in DOMAIN m THEN m[event] ELSE <<>>)
        ELSE m[e]]

\* self.map.entry(event).or_insert(Vec::new()); listeners.push(..)
push_listener(m, event, l) ==
    [e \in (DOMAIN m) \cup {event} |->
        IF e = event
        THEN Append(IF event \in DOMAIN m THEN m[event] ELSE <<>>, l)
        ELSE m[e]]

\* self.next_id += 1 on a fixed-width unsigned integer
add_one(n, checks) ==
    IF n + 1 > IdMax
    THEN IF checks THEN [panic |-> TRUE, value |-> n]
                   ELSE [panic |-> FALSE, value |-> (n + 1) % (IdMax + 1)]
    ELSE [panic |-> FALSE, value |-> n + 1]

\* on(&mut self, event, listener) -> Id
on(m, n, event, f, checks) ==
    LET id == n
        m2 == push_listener(m, event, Listener(n, f))
        inc == add_one(n, checks)
    IN [map |-> m2,
        next_id |-> inc.value,
        result |-> IF inc.panic THEN "panic" ELSE "returned",
        id |-> IF inc.panic THEN NoId ELSE id]

\* ------------------------------------------------------------------- off
\* listeners.iter().position(|x| x.id == id): first index, 0 when none
position(listeners, id) ==
    IF \E i \in 1..Len(listeners) : listeners[i].id = id
    THEN CHOOSE i \in 1..Len(listeners) :
            /\ listeners[i].id = id
            /\ \A j \in 1..(i - 1) : listeners[j].id # id
    ELSE 0

\* remove that drops the record at idx and every record after it
remove_truncate(listeners, idx) == SubSeq(listeners, 1, idx - 1)

\* Vec::remove(idx)
remove(listeners, idx) ==
    [i \in 1..(Len(listeners) - 1) |->
        IF i < idx THEN listeners[i] ELSE listeners[i + 1]]

\* off that also deletes the map entry once its sequence is empty
off_drop_empty(m, id, order) ==
    LET hit == {k \in DOMAIN m : position(m[k], id) # 0}
    IN IF hit = {}
       THEN [result |-> "ListenerNotFound", map |-> m]
       ELSE LET k == CHOOSE x \in hit :
                        \A i \in DOMAIN order : order[i] \in hit =>
                            \E j \in 1..i : order[j] = x
                left == remove(m[k], position(m[k], id))
            IN [result |-> "Ok",
                map |-> IF left = <<>>
                        THEN [e \in (DOMAIN m) \ {k} |-> m[e]]
                        ELSE [m EXCEPT ![k] = left]]

\* off that empties every sequence when it finds no record
off_clear_on_miss(m, id, order) ==
    LET hit == {k \in DOMAIN m : position(m[k], id) # 0}
    IN IF hit = {}
       THEN [result |-> "ListenerNotFound", map |-> [e \in DOMAIN m |-> <<>>]]
       ELSE LET k == CHOOSE x \in hit :
                        \A i \in DOMAIN order : order[i] \in hit =>
                            \E j \in 1..i : order[j] = x
            IN [result |-> "Ok",
                map |-> [m EXCEPT ![k] = remove(m[k], position(m[k], id))]]

\* off(&mut self, id): the loop over self.map.iter_mut(), whose order is
\* the hash map's; order is the sequence of keys still to visit
RECURSIVE off(_, _, _)
off(m, id, order) ==
    IF order = <<>>
    THEN [result |-> "ListenerNotFound", map |-> m]
    ELSE LET k == Head(order)
             idx == position(m[k], id)
         IN IF idx # 0
            THEN [result |-> "Ok",
                  map |-> [m EXCEPT ![k] = remove(m[k], idx)]]
            ELSE off(m, id, Tail(order))

\* the orders in which iter_mut may visit the keys of m
Orders(m) ==
    {o \in [1..Cardinality(DOMAIN m) -> DOMAIN m] :
        \A i, j \in DOMAIN o : i # j => o[i] # o[j]}

\* ------------------------------------------------------------------ emit
\* listeners.iter().for_each(|f| (f.closure)(payload.clone())): the calls
\* made, in order, up to and including the first closure that panics

\* for_each visiting the listeners last to first
for_each_rev(listeners, payload) ==
    [calls |-> [i \in 1..Len(listeners) |->
                  LET f == listeners[Len(listeners) + 1 - i]
                  IN [id |-> f.id, closure |-> f.closure,
                      value |-> Clone(payload)]],
     panic |-> \E i \in 1..Len(listeners) : listeners[i].closure = "fail"]

\* for_each that goes on with the next listener after a closure panicked
for_each_isolated(listeners, payload) ==
    [calls |-> [i \in 1..Len(listeners) |->
                  [id |-> listeners[i].id, closure |-> listeners[i].closure,
                   value |-> Clone(payload)]],
     panic |-> \E i \in 1..Len(listeners) : listeners[i].closure = "fail"]

RECURSIVE for_each(_, _)
for_each(listeners, payload) ==
    IF listeners = <<>>
    THEN [calls |-> <<>>, panic |-> FALSE]
    ELSE LET f == Head(listeners)
             call == [id |-> f.id, closure |-> f.closure,
                      value |-> Clone(payload)]
         IN IF f.closure = "fail"
            THEN [calls |-> <<call>>, panic |-> TRUE]
            ELSE LET rest == for_each(Tail(listeners), payload)
                 IN [calls |-> <<call>> \o rest.calls, panic |-> rest.panic]

\* the forms a key comes in: the owned E the map stores (String in the
\* tests) and the borrowed B emit may be given instead (str)
Forms == {"String", "str"}

Key(form, chars) == [form |-> form, chars |-> chars]

\* the keys emit can be called with
Keys == {Key(form, chars) : form \in Forms, chars \in Events}

\* borrow that hands the owned key over as it is stored
borrow_as_stored(k, form) == k

\* E: Borrow<B>: the owned key seen as a B
borrow(k, form) == Key(form, k.chars)

\* HashMap::get(&B): the entry whose owned key, borrowed as a B, equals
\* the key given
get(m, event) ==
    LET hit == {e \in DOMAIN m :
                    borrow(Key("String", e), event.form) = event}
    IN IF hit = {}
       THEN [found |-> FALSE, listeners |-> <<>>]
       ELSE [found |-> TRUE, listeners |-> m[CHOOSE e \in hit : TRUE]]

\* emit that treats a missing entry as an entry without listeners
emit_or_default(m, event, payload) ==
    LET run == for_each(get(m, event).listeners, payload)
    IN [result |-> IF run.panic THEN "panic" ELSE "Ok", calls |-> run.calls]

\* the listeners of the given keys, one key after the other
RECURSIVE listeners_of(_, _)
listeners_of(m, keys) ==
    IF keys = {} THEN <<>>
    ELSE LET k == CHOOSE x \in keys : TRUE
         IN m[k] \o listeners_of(m, keys \ {k})

\* emit that, once the key is found, calls the listeners of every key
emit_broadcast(m, event, payload) ==
    LET found == get(m, event)
    IN IF found.found
       THEN LET run == for_each(found.listeners \o
                                listeners_of(m, (DOMAIN m) \ {event.chars}),
                                payload)
            IN [result |-> IF run.panic THEN "panic" ELSE "Ok",
                calls |-> run.calls]
       ELSE [result |-> "UnknownEvent", calls |-> <<>>]

\* emit(&self, event, payload) -> Result<(), Error>
emit(m, event, payload) ==
    LET found == get(m, event)
    IN IF found.found
       THEN LET run == for_each(found.listeners, payload)
            IN [result |-> IF run.panic THEN "panic" ELSE "Ok",
                calls |-> run.calls]
       ELSE [result |-> "UnknownEvent", calls |-> <<>>]

\* --------------------------------------------------------------- machine
Call(op, event, id, payload, result, calls) ==
    [op |-> op, event |-> event, form |-> NoEvent, id |-> id,
     payload |-> payload, result |-> result, calls |-> calls]

Init ==
    /\ next_id = new.next_id
    /\ map = new.map
    /\ overflow_checks \in BOOLEAN
    /\ last = Call("new", NoEvent, NoId, NoPayload, "returned", <<>>)
    /\ issued = {}
    /\ removed = {}
    /\ seen = {}

On(event, f) ==
    /\ Size(map) < MaxListeners
    /\ LET r == on(map, next_id, event, f, overflow_checks)
       IN /\ map' = r.map
          /\ next_id' = r.next_id
          /\ last' = Call("on", event, r.id, NoPayload, r.result, <<>>)
          /\ issued' = IF r.result = "returned" THEN issued \cup {r.id}
                       ELSE issued
    /\ seen' = seen \cup {event}
    /\ UNCHANGED <<overflow_checks, removed>>

Off(id) ==
    /\ \E order \in Orders(map) :
          LET r == off(map, id, order)
          IN /\ map' = r.map
             /\ last' = Call("off", NoEvent, id, NoPayload, r.result, <<>>)
             /\ removed' = IF r.result = "Ok" THEN removed \cup {id}
                           ELSE removed
    /\ UNCHANGED <<next_id, overflow_checks, issued, seen>>

\* Emit that creates the entry of a key it does not find
Emit_or_insert(event, payload) ==
    /\ LET r == emit(map, event, payload)
       IN last' = [Call("emit", event.chars, NoId, payload, r.result,
                        r.calls) EXCEPT !.form = event.form]
    /\ map' = [e \in (DOMAIN map) \cup {event.chars} |->
                  IF e \in DOMAIN map THEN map[e] ELSE <<>>]
    /\ UNCHANGED <<next_id, overflow_checks, issued, removed, seen>>

Emit(event, payload) ==
    /\ LET r == emit(map, event, payload)
       IN last' = [Call("emit", event.chars, NoId, payload, r.result,
                        r.calls) EXCEPT !.form = event.form]
    /\ UNCHANGED <<next_id, map, overflow_checks, issued, removed, seen>>

Next ==
    \/ \E event \in Events, f \in Closures : On(event, f)
    \/ \E id \in Ids : Off(id)
    \/ \E event \in Keys, payload \in Payloads : Emit(event, payload)

Spec == Init /\ [][Next]_vars

TypeOK ==
    /\ next_id \in Ids
    /\ DOMAIN map \subseteq Events
    /\ \A e \in DOMAIN map : \A i \in 1..Len(map[e]) :
          map[e][i].id \in Ids /\ map[e][i].closure \in Closures
    /\ issued \subseteq Ids
    /\ removed \subseteq Ids
    /\ seen \subseteq Events
\* ---------------------------------------------------------------- claims
\* the listeners of a sequence, each paired with the value it is given
Paired(listeners, payload) ==
    [i \in 1..Len(listeners) |->
        [id |-> listeners[i].id, closure |-> listeners[i].closure,
         value |-> payload]]

NoneFails(listeners) ==
    \A i \in 1..Len(listeners) : listeners[i].closure # "fail"

EmitOnEntry == last.op = "emit" /\ last.event \in DOMAIN map

\* C1 as stated: for every key that has a map entry, emit returns Ok and
\* has called every listener of the key's sequence exactly once, in
\* sequence order, each with a value equal to the payload.
C1_AsStated ==
    EmitOnEntry =>
        /\ last.result = "Ok"
        /\ last.calls = Paired(map[last.event], last.payload)

\* C1 amended: for every key that has a map entry and none of whose
\* listeners' closures fails, emit returns Ok and has called every listener
\* of the key's sequence exactly once, in sequence order, each with a value
\* equal to the payload.
C1_EmitCallsAllInOrder ==
    (EmitOnEntry /\ NoneFails(map[last.event])) =>
        /\ last.result = "Ok"
        /\ last.calls = Paired(map[last.event], last.payload)

\* C1 witness: an emit of 3 that returned Ok after calling two listeners
\* with different ids
C1_Witness ==
    /\ EmitOnEntry
    /\ last.result = "Ok"
    /\ last.payload = 3
    /\ Len(last.calls) = 2
    /\ last.calls[1].id # last.calls[2].id
    /\ last.calls[1].value = 3 /\ last.calls[2].value = 3

\* C2 as stated: the ids returned by on are pairwise distinct and strictly
\* increasing in call order: an id that on returns is larger than every id
\* returned before.
C2_AsStated ==
    [][(last'.op = "on" /\ last'.result = "returned") =>
          \A j \in issued : j < last'.id]_vars

\* C3 as stated: for an id that on has returned, off(id) returns Ok when no
\* off(id) has returned Ok before and ListenerNotFound when one has.
C3_AsStated ==
    [][(last'.op = "off" /\ last'.id \in issued) =>
          IF last'.id \in removed
          THEN last'.result = "ListenerNotFound"
          ELSE last'.result = "Ok"]_vars

\* C4 as stated: off(id) for an id that on never returned, in particular
\* any id >= next_id, returns ListenerNotFound.
C4_AsStated ==
    (last.op = "off" /\ (last.id \notin issued \/ last.id >= next_id)) =>
        last.result = "ListenerNotFound"

\* C5: emit on an event that on was never called with returns UnknownEvent
\* and calls no closure at all.
C5_EmitUnknownEvent ==
    (last.op = "emit" /\ last.event \notin seen) =>
        /\ last.result = "UnknownEvent"
        /\ last.calls = <<>>

\* C5 witness: an emit on a never registered event while another event has
\* listeners
C5_Witness ==
    /\ last.op = "emit"
    /\ last.event \notin seen
    /\ last.result = "UnknownEvent"
    /\ \E e \in DOMAIN map : map[e] # <<>>

EmitOnSeen == last.op = "emit" /\ last.event \in seen

\* C6 as stated: once on has been called with an event, every later emit on
\* it returns Ok, the set of keys never shrinks, and with all its listeners
\* removed emit still returns Ok and calls nothing.
C6_AsStated ==
    /\ [](EmitOnSeen =>
            /\ last.event \in DOMAIN map
            /\ last.result = "Ok"
            /\ (map[last.event] = <<>> => last.calls = <<>>))
    /\ [][DOMAIN map \subseteq DOMAIN map']_vars

\* C6 amended: once on has been called with an event, no later emit on it
\* returns UnknownEvent, whatever off calls follow (the set of keys never
\* shrinks); it returns Ok exactly when none of the closures it calls
\* fails; in particular, with all the event's listeners removed, emit
\* returns Ok and calls nothing.
C6_EntryPersists ==
    /\ [](seen \subseteq DOMAIN map)
    /\ [](EmitOnSeen =>
            /\ last.event \in DOMAIN map
            /\ last.result # "UnknownEvent"
            /\ (last.result = "Ok" <=> NoneFails(map[last.event]))
            /\ (map[last.event] = <<>> =>
                    last.result = "Ok" /\ last.calls = <<>>))
    /\ [][DOMAIN map \subseteq DOMAIN map']_vars

\* C6 witness: an emit that returned Ok on an event all of whose listeners
\* have been removed
C6_Witness ==
    /\ EmitOnSeen
    /\ last.event \in DOMAIN map
    /\ map[last.event] = <<>>
    /\ removed # {}
    /\ last.result = "Ok"
    /\ last.calls = <<>>

\* the listeners of a sequence whose id is not id
RECURSIVE Without(_, _)
Without(listeners, id) ==
    IF listeners = <<>> THEN <<>>
    ELSE IF Head(listeners).id = id THEN Without(Tail(listeners), id)
         ELSE <<Head(listeners)>> \o Without(Tail(listeners), id)

\* C7 as stated: after off(id) returned Ok no later emit calls the listener
\* with that id, and off leaves the other listeners of the key in place, in
\* their order.
C7_AsStated ==
    /\ [](last.op = "emit" =>
            \A i \in 1..Len(last.calls) : last.calls[i].id \notin removed)
    /\ [][(last'.op = "off" /\ last'.result = "Ok") =>
            \A e \in DOMAIN map :
                /\ e \in DOMAIN map'
                /\ Without(map'[e], last'.id) = Without(map[e], last'.id)
                /\ \A i \in 1..Len(map'[e]) : map'[e][i].id # last'.id]_vars

\* C8 as stated: no two records of the map, in one sequence or under
\* different keys, share an id.
C8_AsStated ==
    \A e1, e2 \in DOMAIN map :
        \A i \in 1..Len(map[e1]), j \in 1..Len(map[e2]) :
            (e1 # e2 \/ i # j) => map[e1][i].id # map[e2][j].id

\* C9 as stated: next_id never decreases, and an id that on has returned is
\* never returned again.
C9_AsStated ==
    [][/\ next_id' >= next_id
       /\ (last'.op = "on" /\ last'.result = "returned") =>
              last'.id \notin issued]_vars

\* C10 as stated: on never fails: in every state, next_id = IdMax
\* included, it completes and returns the id it allocated.
C10_AsStated ==
    [][last'.op = "on" =>
          last'.result = "returned" /\ last'.id = next_id]_vars
\* C11: emit(e) calls only listeners of e's own sequence: the calls it
\* makes are, position by position, records of map[e], and no call is made
\* when e has no entry, whatever listeners other keys hold.
C11_EmitOnlyOwnKey ==
    last.op = "emit" =>
        IF last.event \in DOMAIN map
        THEN /\ Len(last.calls) <= Len(map[last.event])
             /\ \A i \in 1..Len(last.calls) :
                    Listener(last.calls[i].id, last.calls[i].closure)
                        = map[last.event][i]
        ELSE last.calls = <<>>

\* C11 witness: an emit that called the listener of its key while the other
\* key holds a different listener, which it did not call
C11_Witness ==
    /\ EmitOnEntry
    /\ last.result = "Ok"
    /\ Len(last.calls) = 1
    /\ \E e2 \in (DOMAIN map) \ {last.event} :
          /\ Len(map[e2]) = 1
          /\ map[e2][1].id # last.calls[1].id

\* C12: an off that returns ListenerNotFound leaves the map (its keys and
\* every sequence) and next_id as they were.
C12_FailedOffNoEffect ==
    [][(last'.op = "off" /\ last'.result = "ListenerNotFound") =>
          /\ map' = map
          /\ DOMAIN map' = DOMAIN map
          /\ next_id' = next_id]_vars

\* C12 witness: an off that returned ListenerNotFound on a map that holds
\* listeners
C12_Witness ==
    /\ last.op = "off"
    /\ last.result = "ListenerNotFound"
    /\ Size(map) = 2

C15_OnAppends ==
    [][last'.op = "on" =>
          LET e == last'.event
              old == IF e \in DOMAIN map THEN map[e] ELSE <<>>
          IN /\ DOMAIN map' = (DOMAIN map) \cup {e}
             /\ Len(map'[e]) = Len(old) + 1
             /\ map'[e][Len(old) + 1].id = next_id
             /\ \A i \in 1..Len(old) : map'[e][i] = old[i]
             /\ \A k \in (DOMAIN map) \ {e} : map'[k] = map[k]]_vars

\* C15 witness: an on that returned its id and left its record second in
\* the event's sequence, after an older record
C15_Witness ==
    /\ last.op = "on"
    /\ last.result = "returned"
    /\ Len(map[last.event]) = 2
    /\ map[last.event][2].id = last.id
    /\ map[last.event][1].id # last.id
\* the ids of the records the map holds
IdsInMap ==
    UNION {{map[e][i].id : i \in 1..Len(map[e])} : e \in DOMAIN map}

\* C16 as stated: the ids in the map are the ids on has returned less the
\* ids for which an off has returned Ok; a record appears only through on
\* and disappears only through an off that returns Ok.
C16_AsStated ==
    /\ [](IdsInMap = issued \ removed)
    /\ [][/\ Size(map') > Size(map) => last'.op = "on"
          /\ Size(map') < Size(map) =>
                last'.op = "off" /\ last'.result = "Ok"]_vars

\* C17 as stated, by induction on the calls: next_id is 0 on a fresh
\* registry, an on that completes returns next_id and leaves it one larger,
\* and nothing else changes it; so next_id is the number of completed on
\* calls and the n-th of them returns n - 1.
C17_AsStated ==
    /\ next_id = 0
    /\ [][IF last'.op = "on" /\ last'.result = "returned"
          THEN last'.id = next_id /\ next_id' = next_id + 1
          ELSE next_id' = next_id]_vars

\* index of the first listener whose closure fails
FirstFail(listeners) ==
    CHOOSE i \in 1..Len(listeners) :
        /\ listeners[i].closure = "fail"
        /\ \A j \in 1..(i - 1) : listeners[j].closure # "fail"

\* C18: when a closure fails during emit, emit does not return Ok (the
\* panic reaches its caller), the listeners before the failing one have
\* each been called once, in order, and no listener after it is called.
C18_FailingCallbackAborts ==
    (EmitOnEntry /\ ~NoneFails(map[last.event])) =>
        LET k == FirstFail(map[last.event])
        IN /\ last.result = "panic"
           /\ last.calls =
                 Paired(SubSeq(map[last.event], 1, k), last.payload)

\* C18 witness: an emit whose first listener failed, leaving the second
\* one uncalled
C18_Witness ==
    /\ EmitOnEntry
    /\ Len(map[last.event]) = 2
    /\ map[last.event][1].closure = "fail"
    /\ map[last.event][2].closure = "send"
    /\ last.result = "panic"
    /\ Len(last.calls) = 1

\* the listeners called, without the values they were given
Called(calls) ==
    [i \in 1..Len(calls) |-> Listener(calls[i].id, calls[i].closure)]

\* C19: emit, whether it returns Ok or UnknownEvent, leaves the map (its
\* keys, no entry created for an unknown key, and every sequence) and
\* next_id as they were; an emit right after an emit on the same key calls
\* the same listeners in the same order.
C19_EmitLeavesRegistry ==
    [][last'.op = "emit" =>
          /\ map' = map
          /\ DOMAIN map' = DOMAIN map
          /\ next_id' = next_id
          /\ (last.op = "emit" /\ last.event = last'.event) =>
                Called(last'.calls) = Called(last.calls)]_vars

\* C19 witness: an emit that returned UnknownEvent and left its key
\* without an entry, beside a key that has listeners
C19_Witness ==
    /\ last.op = "emit"
    /\ last.result = "UnknownEvent"
    /\ last.event \notin DOMAIN map
    /\ Size(map) >= 1

\* C20 as stated: for every id, the result of off(id) and the map it leaves
\* are the same in whichever order the keys are scanned.
C20_AsStated ==
    \A id \in Ids : \A o1, o2 \in Orders(map) :
        off(map, id, o1) = off(map, id, o2)
====
